---------------------------- MODULE Spec2Model ----------------------------
(***************************************************************************)
(* Model of Calendario/finanzas_app.py: a Streamlit personal-finance app   *)
(* over a remote relational store.                                         *)
(*                                                                         *)
(* Ledger part: the store's two tables, the process-wide st.cache_data of  *)
(* load_transactions / load_categories (ttl=60, cleared by every write),   *)
(* and browser sessions, each running the script ui_app top to bottom once *)
(* per interaction.  Every remote call and every cache operation is one    *)
(* step, so passes of different sessions interleave between them.          *)
(*                                                                         *)
(* Aggregation part: the range filter, the KPIs and the cumulative balance *)
(* series of ui_app, as operators over a loaded transaction sequence.      *)
(***************************************************************************)
EXTENDS Integers, Sequences, FiniteSets, Bags, TLC

\* ------------------------------------------------------------------ bounds
MaxRuns == 2         \* script passes started over a behaviour
MaxTx == 2           \* transaction rows ever inserted (ids 1..MaxTx)
MaxCats == 4         \* category rows an owner may hold when "Guardar categoría" is accepted
MaxLen == 3          \* rows of the transaction sequence given to the aggregation

Owners == {"u1", "u2"}
Sessions == {"s1", "s2"}
None == "none"
Kinds == {"ingreso", "gasto", "inversion"}

\* The seed list of ensure_default_categories, one entry per kind (the first
\* of each kind in the source's list of twelve).
defaults ==
    << [name |-> "Sueldo", kind |-> "ingreso"],
       [name |-> "Alquiler", kind |-> "gasto"],
       [name |-> "Ahorro/ETF", kind |-> "inversion"] >>

\* Values typed into the widgets.
FormAmounts == {-5, 0, 300}        \* st.sidebar.number_input("Monto")
FormDates == {15}                  \* st.sidebar.date_input("Fecha")
NewNames == {"", "Otros"}          \* st.text_input("Nueva categoría")
NewKinds == {"gasto"}              \* st.selectbox("Tipo", key="new_kind")
Buttons == {"none", "logout", "add", "addcat", "delcat", "deltx"}

Funcs == {"load_transactions", "load_categories"}
CacheKeys == Funcs \X Owners
\* The cache holding nothing for function f and some owner.
NoEntry(f) == [data |-> IF f = "load_categories" THEN EmptyBag ELSE {}, held |-> FALSE]

\* The accounts a browser session signs in to.  Sessions and owners are
\* interchangeable, so the first session's owner is called u1; the second
\* session signs in as the same owner or as another one.
Accounts(s) == IF s = "s1" THEN {"u1"} ELSE Owners

VARIABLES
    transactions,   \* table transactions: set of rows (ids are unique)
    categories,     \* table categories: bag of rows [user_id, name, kind]
    nextId,         \* the store's id sequence for transactions
    cache,          \* st.cache_data: CacheKeys -> entry
    user,           \* st.session_state["user"] of each session
    pc,             \* where each session's script pass stands
    btn,            \* the button whose press started the pass
    form,           \* the sidebar form's widget values (kind, amount, tdate)
    cats_df,        \* result of the session's last load_categories
    tx_df,          \* result of the session's last load_transactions
    idx,            \* position in the seed loop of ensure_default_categories
    del_name,       \* delete_category's name argument
    del_to,         \* delete_category's reassign_to argument
    msg,            \* the message the pass showed
    unread,         \* cache keys not loaded again since the last completed write
    runs,           \* script passes started so far
    df,             \* aggregation: the loaded transaction sequence
    start,          \* aggregation: "Desde"
    end,            \* aggregation: "Hasta"
    fdf,            \* aggregation: the filtered sequence
    kpi,            \* aggregation: ing, gas, inv, balance
    g,              \* aggregation: the grouped series (tdate, delta, saldo)
    apc             \* aggregation: position in the main content

ledgerVars == <<transactions, categories, nextId, cache, user, pc, btn, form,
                cats_df, tx_df, idx, del_name, del_to, msg, unread, runs>>
aggVars == <<df, start, end, fdf, kpi, g, apc>>
vars == <<transactions, categories, nextId, cache, user, pc, btn, form,
          cats_df, tx_df, idx, del_name, del_to, msg, unread, runs,
          df, start, end, fdf, kpi, g, apc>>

\* ------------------------------------------------------------ store access
\* .table("transactions").select("*").eq("user_id", user_id)
FetchTransactions(uid) == {t \in transactions : t.user_id = uid}

\* .table("categories").select(...).eq("user_id", user_id); the rows keep
\* their user_id here so that their provenance can be stated.
FetchCategories(uid) ==
    [r \in {x \in DOMAIN categories : x.user_id = uid} |-> categories[r]]

CatNamesOf(cdf) == {r.name : r \in DOMAIN cdf}

\* ------------------------------------------------------------------- cache
CacheKeyShared(f, uid) == <<f, "u1">>
CacheKey(f, uid) == <<f, uid>>

\* An entry is served while it is held: until its ttl of 60 has elapsed
\* (Expire) or the cache is cleared.
Fresh(e) == e.held

\* The value a call of the cached function f(uid) returns, given what the
\* store would answer.
Cached(f, uid, live) ==
    IF Fresh(cache[CacheKey(f, uid)]) THEN cache[CacheKey(f, uid)].data ELSE live

\* The cache after that call.
CacheAfter(f, uid, live) ==
    IF Fresh(cache[CacheKey(f, uid)]) THEN cache
    ELSE [cache EXCEPT ![CacheKey(f, uid)] = [data |-> live, held |-> TRUE]]

CacheClearForgotten == cache
\* st.cache_data.clear(): every entry of every cached function goes.
CacheClear == [k \in CacheKeys |-> NoEntry(k[1])]

\* ------------------------------------------------------------- validation
AmountInvalidStrict(amount) == amount < 0
\* elif amount <= 0
AmountInvalid(amount) == amount <= 0

SeedAlways(cat_df) == TRUE
\* if not cat_df.empty: return
SeedNeeded(cat_df) == DOMAIN cat_df = {}

\* cats_df.loc[cats_df["kind"] == kind, "name"].tolist()
CatsOpts(cdf, kind) == {r.name : r \in {x \in DOMAIN cdf : x.kind = kind}}

\* int((tx_df["category"] == cat_del).sum())
CountAssoc(tdf, cat_del) == Cardinality({t \in tdf : t.category = cat_del})

\* --------------------------------------------------------- table mutations
InsertCategory(uid, name, kind) ==
    categories (+) SetToBag({[user_id |-> uid, name |-> name, kind |-> kind]})

ReassignAll(uid, name, to) ==
    {IF t.user_id = uid THEN [t EXCEPT !.category = to] ELSE t : t \in transactions}
\* .update({"category": reassign_to}).eq("user_id", user_id).eq("category", name)
ReassignRows(uid, name, to) ==
    {IF t.user_id = uid /\ t.category = name THEN [t EXCEPT !.category = to] ELSE t :
        t \in transactions}

\* .table("categories").delete().eq("user_id", user_id).eq("name", name)
DeleteCategoryRows(uid, name) ==
    [r \in {x \in DOMAIN categories : ~(x.user_id = uid /\ x.name = name)} |->
        categories[r]]

NumCats(uid) == BagCardinality(FetchCategories(uid))

\* ---------------------------------------------------------------- sessions
NoForm == [kind |-> "ingreso", amount |-> 0, tdate |-> 15]
Forms == [kind : Kinds, amount : FormAmounts, tdate : FormDates]

\* Locals of a pass, as they are when no pass is running.
ResetLocals(s) ==
    /\ btn' = [btn EXCEPT ![s] = "none"]
    /\ form' = [form EXCEPT ![s] = NoForm]
    /\ cats_df' = [cats_df EXCEPT ![s] = EmptyBag]
    /\ tx_df' = [tx_df EXCEPT ![s] = {}]
    /\ idx' = [idx EXCEPT ![s] = 0]
    /\ del_name' = [del_name EXCEPT ![s] = None]
    /\ del_to' = [del_to EXCEPT ![s] = None]
    /\ msg' = [msg EXCEPT ![s] = None]

\* The seed rows as the store holds them for owner uid.
DefaultsBag(uid) ==
    SetToBag({[user_id |-> uid, name |-> defaults[i].name, kind |-> defaults[i].kind] :
                 i \in 1..Len(defaults)})

\* The store outlives the process.  It is empty, or holds what an earlier
\* pass of owner u1 left: the seeds and one movement.
LedgerInit ==
    /\ \/ /\ transactions = {}
          /\ categories = EmptyBag
          /\ nextId = 1
       \/ /\ transactions = {[id |-> 1, user_id |-> "u1", tdate |-> 15, amount |-> 300,
                              kind |-> "gasto", category |-> "Alquiler"]}
          /\ categories = DefaultsBag("u1")
          /\ nextId = 2
    /\ cache = [k \in CacheKeys |-> NoEntry(k[1])]
    /\ user = [s \in Sessions |-> None]
    /\ pc = [s \in Sessions |-> "idle"]
    /\ btn = [s \in Sessions |-> "none"]
    /\ form = [s \in Sessions |-> NoForm]
    /\ cats_df = [s \in Sessions |-> EmptyBag]
    /\ tx_df = [s \in Sessions |-> {}]
    /\ idx = [s \in Sessions |-> 0]
    /\ del_name = [s \in Sessions |-> None]
    /\ del_to = [s \in Sessions |-> None]
    /\ msg = [s \in Sessions |-> None]
    /\ unread = {}
    /\ runs = 0

AggIdle ==
    /\ df = << >>
    /\ start = 1
    /\ end = 1
    /\ fdf = << >>
    /\ kpi = [ing |-> 0, gas |-> 0, inv |-> 0, balance |-> 0]
    /\ g = << >>
    /\ apc = "off"

\* sign_in: the identity provider accepted the credentials of owner o.
SignIn(s, o) ==
    /\ pc[s] = "idle"
    /\ user[s] = None
    /\ user' = [user EXCEPT ![s] = o]
    /\ cache' = CacheClear
    /\ UNCHANGED aggVars
    /\ UNCHANGED <<transactions, categories, nextId, pc, btn, form, cats_df,
                   tx_df, idx, del_name, del_to, msg, unread, runs>>

\* main -> ui_app: an interaction starts a pass of the script; b is the
\* button pressed (at most one per pass) and f the sidebar form's values.
Rerun(s, b, f) ==
    /\ pc[s] = "idle"
    /\ user[s] # None
    /\ runs < MaxRuns
    /\ runs' = runs + 1
    /\ btn' = [btn EXCEPT ![s] = b]
    /\ form' = [form EXCEPT ![s] = IF b = "add" THEN f ELSE NoForm]
    /\ pc' = [pc EXCEPT ![s] = "ensure"]
    /\ UNCHANGED aggVars
    /\ UNCHANGED <<transactions, categories, nextId, cache, user, cats_df,
                   tx_df, idx, del_name, del_to, msg, unread>>

\* A call of load_categories(user_id) by session s, leading to pc value next.
LoadCategories(s, next) ==
    LET uid == user[s]
        live == FetchCategories(uid)
    IN  /\ cats_df' = [cats_df EXCEPT ![s] = Cached("load_categories", uid, live)]
        /\ cache' = CacheAfter("load_categories", uid, live)
        /\ unread' = unread \ {<<"load_categories", uid>>}
        /\ pc' = [pc EXCEPT ![s] = next]

\* A call of load_transactions(user_id) by session s.
LoadTransactions(s, next) ==
    LET uid == user[s]
        live == FetchTransactions(uid)
    IN  /\ tx_df' = [tx_df EXCEPT ![s] = Cached("load_transactions", uid, live)]
        /\ cache' = CacheAfter("load_transactions", uid, live)
        /\ unread' = unread \ {<<"load_transactions", uid>>}
        /\ pc' = [pc EXCEPT ![s] = next]

\* The st.cache_data.clear() that ends a write.
WriteClear(s, next) ==
    /\ cache' = CacheClear
    /\ unread' = CacheKeys
    /\ pc' = [pc EXCEPT ![s] = next]

\* ensure_default_categories: cat_df = load_categories(user_id) and the test.
EnsureLoad(s) ==
    /\ pc[s] = "ensure"
    /\ LET uid == user[s]
           res == Cached("load_categories", uid, FetchCategories(uid))
       IN  /\ LoadCategories(s, IF SeedNeeded(res) THEN "seed" ELSE "sidebar")
           /\ idx' = [idx EXCEPT ![s] = IF SeedNeeded(res) THEN 1 ELSE 0]
    /\ UNCHANGED aggVars
    /\ UNCHANGED <<transactions, categories, nextId, user, btn, form, tx_df,
                   del_name, del_to, msg, runs>>

\* ensure_default_categories: one insert of the seed loop.
SeedInsert(s) ==
    /\ pc[s] = "seed"
    /\ categories' = InsertCategory(user[s], defaults[idx[s]].name, defaults[idx[s]].kind)
    /\ idx' = [idx EXCEPT ![s] = idx[s] + 1]
    /\ pc' = [pc EXCEPT ![s] = IF idx[s] = Len(defaults) THEN "seed_clear" ELSE "seed"]
    /\ UNCHANGED aggVars
    /\ UNCHANGED <<transactions, nextId, cache, user, btn, form, cats_df, tx_df,
                   del_name, del_to, msg, unread, runs>>

\* ensure_default_categories: st.cache_data.clear()
SeedClear(s) ==
    /\ pc[s] = "seed_clear"
    /\ WriteClear(s, "sidebar")
    /\ UNCHANGED aggVars
    /\ UNCHANGED <<transactions, categories, nextId, user, btn, form, cats_df,
                   tx_df, idx, del_name, del_to, msg, runs>>

\* "Cerrar sesión": sign_out.
SignOut(s) ==
    /\ pc[s] = "sidebar"
    /\ btn[s] = "logout"
    /\ user' = [user EXCEPT ![s] = None]
    /\ cache' = CacheClear
    /\ pc' = [pc EXCEPT ![s] = "idle"]
    /\ ResetLocals(s)
    /\ UNCHANGED aggVars
    /\ UNCHANGED <<transactions, categories, nextId, unread, runs>>

\* cats_df = load_categories(user_id) of the sidebar form.
LoadCatsForm(s) ==
    /\ pc[s] = "sidebar"
    /\ btn[s] # "logout"
    /\ LoadCategories(s, IF btn[s] = "add" THEN "add"
                         ELSE IF btn[s] = "addcat" THEN "addcat" ELSE "admin_cats")
    /\ UNCHANGED aggVars
    /\ UNCHANGED <<transactions, categories, nextId, user, btn, form, tx_df, idx,
                   del_name, del_to, msg, runs>>

\* "Agregar" with no category of the chosen kind.
AddNoCategory(s) ==
    /\ pc[s] = "add"
    /\ CatsOpts(cats_df[s], form[s].kind) = {}
    /\ msg' = [msg EXCEPT ![s] = "NoCategory"]
    /\ pc' = [pc EXCEPT ![s] = "admin_cats"]
    /\ UNCHANGED aggVars
    /\ UNCHANGED <<transactions, categories, nextId, cache, user, btn, form,
                   cats_df, tx_df, idx, del_name, del_to, unread, runs>>

\* "Agregar" with an amount the form rejects.
AddInvalidAmount(s) ==
    /\ pc[s] = "add"
    /\ CatsOpts(cats_df[s], form[s].kind) # {}
    /\ AmountInvalid(form[s].amount)
    /\ msg' = [msg EXCEPT ![s] = "InvalidAmount"]
    /\ pc' = [pc EXCEPT ![s] = "admin_cats"]
    /\ UNCHANGED aggVars
    /\ UNCHANGED <<transactions, categories, nextId, cache, user, btn, form,
                   cats_df, tx_df, idx, del_name, del_to, unread, runs>>

\* "Agregar": add_transaction's insert, with the category chosen among the options.
AddTransaction(s, category) ==
    /\ pc[s] = "add"
    /\ category \in CatsOpts(cats_df[s], form[s].kind)
    /\ ~AmountInvalid(form[s].amount)
    /\ nextId <= MaxTx
    /\ transactions' = transactions \cup
          {[id |-> nextId, user_id |-> user[s], tdate |-> form[s].tdate,
            amount |-> form[s].amount, kind |-> form[s].kind, category |-> category]}
    /\ nextId' = nextId + 1
    /\ pc' = [pc EXCEPT ![s] = "add_clear"]
    /\ UNCHANGED aggVars
    /\ UNCHANGED <<categories, cache, user, btn, form, cats_df, tx_df, idx,
                   del_name, del_to, msg, unread, runs>>

\* add_transaction: st.cache_data.clear()
AddClear(s) ==
    /\ pc[s] = "add_clear"
    /\ WriteClear(s, "admin_cats")
    /\ msg' = [msg EXCEPT ![s] = "Added"]
    /\ UNCHANGED aggVars
    /\ UNCHANGED <<transactions, categories, nextId, user, btn, form, cats_df,
                   tx_df, idx, del_name, del_to, runs>>

\* "Guardar categoría" with a blank name.
AddCategoryBlank(s) ==
    /\ pc[s] = "addcat"
    /\ "" \in NewNames
    /\ msg' = [msg EXCEPT ![s] = "NameRequired"]
    /\ pc' = [pc EXCEPT ![s] = "admin_cats"]
    /\ UNCHANGED aggVars
    /\ UNCHANGED <<transactions, categories, nextId, cache, user, btn, form,
                   cats_df, tx_df, idx, del_name, del_to, unread, runs>>

\* "Guardar categoría": add_category's insert.
AddCategory(s, name, kind) ==
    /\ pc[s] = "addcat"
    /\ name # ""
    /\ NumCats(user[s]) < MaxCats
    /\ categories' = InsertCategory(user[s], name, kind)
    /\ pc' = [pc EXCEPT ![s] = "addcat_clear"]
    /\ UNCHANGED aggVars
    /\ UNCHANGED <<transactions, nextId, cache, user, btn, form, cats_df, tx_df,
                   idx, del_name, del_to, msg, unread, runs>>

\* add_category: st.cache_data.clear()
AddCategoryClear(s) ==
    /\ pc[s] = "addcat_clear"
    /\ WriteClear(s, "admin_cats")
    /\ msg' = [msg EXCEPT ![s] = "CategorySaved"]
    /\ UNCHANGED aggVars
    /\ UNCHANGED <<transactions, categories, nextId, user, btn, form, cats_df,
                   tx_df, idx, del_name, del_to, runs>>

\* all_cats = load_categories(user_id)["name"].tolist()
LoadAllCats(s) ==
    /\ pc[s] = "admin_cats"
    /\ LoadCategories(s, "count")
    /\ UNCHANGED aggVars
    /\ UNCHANGED <<transactions, categories, nextId, user, btn, form, tx_df, idx,
                   del_name, del_to, msg, runs>>

\* tx_df = load_transactions(user_id), from which count_assoc is taken.
LoadForCount(s) ==
    /\ pc[s] = "count"
    /\ LoadTransactions(s, IF btn[s] = "delcat" THEN "delcat" ELSE "data")
    /\ UNCHANGED aggVars
    /\ UNCHANGED <<transactions, categories, nextId, user, btn, form, cats_df,
                   idx, del_name, del_to, msg, runs>>

\* "Borrar categoría" and nothing is deleted: there is no category to choose
\* (cat_del is None), or movements were counted and no target was chosen
\* (checkbox unticked, or no other category to choose).
DeleteRefused(s, cat_del) ==
    /\ pc[s] = "delcat"
    /\ IF CatNamesOf(cats_df[s]) = {}
       THEN /\ cat_del = None
            /\ msg' = [msg EXCEPT ![s] = "NoCategoryToDelete"]
       ELSE /\ cat_del \in CatNamesOf(cats_df[s])
            /\ CountAssoc(tx_df[s], cat_del) > 0
            /\ msg' = [msg EXCEPT ![s] = "CategoryInUse"]
    /\ pc' = [pc EXCEPT ![s] = "data"]
    /\ UNCHANGED aggVars
    /\ UNCHANGED <<transactions, categories, nextId, cache, user, btn, form,
                   cats_df, tx_df, idx, del_name, del_to, unread, runs>>

\* "Borrar categoría" accepted: delete_category(user_id, cat_del, reassign_to)
\* is called; reassign_to is a candidate when movements were counted and the
\* checkbox ticked, None when none were counted.
DeleteAccepted(s, cat_del, reassign_to) ==
    /\ pc[s] = "delcat"
    /\ cat_del \in CatNamesOf(cats_df[s])
    /\ IF CountAssoc(tx_df[s], cat_del) > 0
       THEN reassign_to \in CatNamesOf(cats_df[s]) \ {cat_del}
       ELSE reassign_to = None
    /\ del_name' = [del_name EXCEPT ![s] = cat_del]
    /\ del_to' = [del_to EXCEPT ![s] = reassign_to]
    /\ pc' = [pc EXCEPT ![s] = IF reassign_to # None THEN "del_update" ELSE "del_delete"]
    /\ UNCHANGED aggVars
    /\ UNCHANGED <<transactions, categories, nextId, cache, user, btn, form,
                   cats_df, tx_df, idx, msg, unread, runs>>

\* delete_category: the update that reassigns (if reassign_to).
DeleteReassign(s) ==
    /\ pc[s] = "del_update"
    /\ transactions' = ReassignRows(user[s], del_name[s], del_to[s])
    /\ pc' = [pc EXCEPT ![s] = "del_delete"]
    /\ UNCHANGED aggVars
    /\ UNCHANGED <<categories, nextId, cache, user, btn, form, cats_df, tx_df,
                   idx, del_name, del_to, msg, unread, runs>>

\* delete_category: the delete of the category rows.
DeleteCategory(s) ==
    /\ pc[s] = "del_delete"
    /\ categories' = DeleteCategoryRows(user[s], del_name[s])
    /\ pc' = [pc EXCEPT ![s] = "del_clear"]
    /\ UNCHANGED aggVars
    /\ UNCHANGED <<transactions, nextId, cache, user, btn, form, cats_df, tx_df,
                   idx, del_name, del_to, msg, unread, runs>>

\* delete_category: st.cache_data.clear()
DeleteClear(s) ==
    /\ pc[s] = "del_clear"
    /\ WriteClear(s, "data")
    /\ msg' = [msg EXCEPT ![s] = "CategoryDeleted"]
    /\ UNCHANGED aggVars
    /\ UNCHANGED <<transactions, categories, nextId, user, btn, form, cats_df,
                   tx_df, idx, del_name, del_to, runs>>

\* df = load_transactions(user_id) of the main content.  "Borrar ID" is
\* offered only when the period holds rows, so only when df has any.
LoadData(s) ==
    /\ pc[s] = "data"
    /\ LET res == Cached("load_transactions", user[s], FetchTransactions(user[s]))
       IN  LoadTransactions(s, IF btn[s] = "deltx" /\ res # {} THEN "deltx" ELSE "render")
    /\ UNCHANGED aggVars
    /\ UNCHANGED <<transactions, categories, nextId, user, btn, form, cats_df,
                   idx, del_name, del_to, msg, runs>>

\* "Borrar ID": delete_transaction's delete.
DeleteTransaction(s, tx_id) ==
    /\ pc[s] = "deltx"
    /\ transactions' = {t \in transactions : ~(t.user_id = user[s] /\ t.id = tx_id)}
    /\ pc' = [pc EXCEPT ![s] = "deltx_clear"]
    /\ UNCHANGED aggVars
    /\ UNCHANGED <<categories, nextId, cache, user, btn, form, cats_df, tx_df,
                   idx, del_name, del_to, msg, unread, runs>>

\* delete_transaction: st.cache_data.clear()
DeleteTransactionClear(s) ==
    /\ pc[s] = "deltx_clear"
    /\ WriteClear(s, "render")
    /\ UNCHANGED aggVars
    /\ UNCHANGED <<transactions, categories, nextId, user, btn, form, cats_df,
                   tx_df, idx, del_name, del_to, msg, runs>>

\* The pass ends; its locals are gone.
EndPass(s) ==
    /\ pc[s] = "render"
    /\ pc' = [pc EXCEPT ![s] = "idle"]
    /\ ResetLocals(s)
    /\ UNCHANGED aggVars
    /\ UNCHANGED <<transactions, categories, nextId, cache, user, unread, runs>>

\* @st.cache_data(ttl=60): the ttl of the entry under key k has elapsed.
Expire(k) ==
    /\ cache[k].held
    /\ cache' = [cache EXCEPT ![k] = NoEntry(k[1])]
    /\ UNCHANGED aggVars
    /\ UNCHANGED <<transactions, categories, nextId, user, pc, btn, form, cats_df,
                   tx_df, idx, del_name, del_to, msg, unread, runs>>

SessionStep(s) ==
    \/ \E o \in Accounts(s) : SignIn(s, o)
    \/ \E b \in Buttons, f \in Forms : Rerun(s, b, f)
    \/ EnsureLoad(s)
    \/ SeedInsert(s)
    \/ SeedClear(s)
    \/ SignOut(s)
    \/ LoadCatsForm(s)
    \/ AddNoCategory(s)
    \/ AddInvalidAmount(s)
    \/ \E c \in CatNamesOf(cats_df[s]) : AddTransaction(s, c)
    \/ AddClear(s)
    \/ AddCategoryBlank(s)
    \/ \E n \in NewNames, k \in NewKinds : AddCategory(s, n, k)
    \/ AddCategoryClear(s)
    \/ LoadAllCats(s)
    \/ LoadForCount(s)
    \/ \E c \in CatNamesOf(cats_df[s]) \cup {None} : DeleteRefused(s, c)
    \/ \E c \in CatNamesOf(cats_df[s]), r \in CatNamesOf(cats_df[s]) \cup {None} :
          DeleteAccepted(s, c, r)
    \/ DeleteReassign(s)
    \/ DeleteCategory(s)
    \/ DeleteClear(s)
    \/ LoadData(s)
    \/ \E i \in 0..MaxTx : DeleteTransaction(s, i)
    \/ DeleteTransactionClear(s)
    \/ EndPass(s)

LedgerNext(S) ==
    \/ \E s \in S : SessionStep(s)
    \/ \E k \in CacheKeys : Expire(k)

\* ------------------------------------------------------------ aggregation
\* Amounts are exact numbers here (whole units); dates are day numbers.
AggDates == {1, 15, 20}
AggAmounts == {300, 1000}
RangeDates == {1, 15, 31}
AggRows == [tdate : AggDates, amount : AggAmounts, kind : Kinds]

\* The scenario of 2024-01: days 1, 15 and 20 of the month.
Scenario ==
    << [tdate |-> 1, amount |-> 1000, kind |-> "ingreso"],
       [tdate |-> 15, amount |-> 300, kind |-> "gasto"],
       [tdate |-> 20, amount |-> 200, kind |-> "inversion"] >>

\* load_transactions orders by tdate.
OrderedByDate(d) == \A i \in 1..Len(d) - 1 : d[i].tdate <= d[i + 1].tdate

Loaded ==
    {d \in UNION {[1..n -> AggRows] : n \in 0..MaxLen} : OrderedByDate(d)} \cup {Scenario}

FilterByRangeOpenEnd(d, a, b) ==
    SelectSeq(d, LAMBDA r : r.tdate >= a /\ r.tdate < b)
\* df[(df["tdate"] >= start) & (df["tdate"] <= end)], or df itself when empty
FilterByRange(d, a, b) ==
    IF d = << >> THEN d ELSE SelectSeq(d, LAMBDA r : r.tdate >= a /\ r.tdate <= b)

\* fdf.loc[fdf["kind"] == kind, "amount"].sum()
RECURSIVE SumAmount(_, _)
SumAmount(f, kind) ==
    IF f = << >> THEN 0
    ELSE (IF Head(f).kind = kind THEN Head(f).amount ELSE 0) + SumAmount(Tail(f), kind)

Kpis(f) ==
    LET ing == IF f = << >> THEN 0 ELSE SumAmount(f, "ingreso")
        gas == IF f = << >> THEN 0 ELSE SumAmount(f, "gasto")
        inv == IF f = << >> THEN 0 ELSE SumAmount(f, "inversion")
    IN  [ing |-> ing, gas |-> gas, inv |-> inv, balance |-> ing - gas - inv]

DeltaGastoOnly(r) == IF r.kind = "gasto" THEN 0 - r.amount ELSE r.amount
\* tmp["delta"]: amount for ingreso, -amount otherwise (inversion set again)
Delta(r) ==
    LET first == IF r.kind = "ingreso" THEN r.amount ELSE 0 - r.amount
    IN  IF r.kind = "inversion" THEN 0 - r.amount ELSE first

\* fdf.sort_values("tdate")
RECURSIVE InsertByDate(_, _)
InsertByDate(sorted, r) ==
    IF sorted = << >> THEN <<r>>
    ELSE IF r.tdate < Head(sorted).tdate THEN <<r>> \o sorted
    ELSE <<Head(sorted)>> \o InsertByDate(Tail(sorted), r)

RECURSIVE SortByDate(_)
SortByDate(f) ==
    IF f = << >> THEN << >>
    ELSE InsertByDate(SortByDate(SubSeq(f, 1, Len(f) - 1)), f[Len(f)])

\* tmp.groupby("tdate", as_index=False)["delta"].sum(): one row per date of
\* the sorted rows, in ascending date order.
RECURSIVE GroupByDate(_)
GroupByDate(tmp) ==
    IF tmp = << >> THEN << >>
    ELSE LET rest == GroupByDate(SubSeq(tmp, 1, Len(tmp) - 1))
             r == tmp[Len(tmp)]
         IN  IF rest # << >> /\ rest[Len(rest)].tdate = r.tdate
             THEN [rest EXCEPT ![Len(rest)].delta = @ + Delta(r)]
             ELSE Append(rest, [tdate |-> r.tdate, delta |-> Delta(r)])

\* g["saldo"] = g["delta"].cumsum()
RECURSIVE CumSum(_)
CumSum(gs) ==
    IF gs = << >> THEN << >>
    ELSE LET before == CumSum(SubSeq(gs, 1, Len(gs) - 1))
             last == gs[Len(gs)]
             carried == IF before = << >> THEN 0 ELSE before[Len(before)].saldo
         IN  Append(before, [tdate |-> last.tdate, delta |-> last.delta,
                             saldo |-> carried + last.delta])

BalanceSeries(f) == CumSum(GroupByDate(SortByDate(f)))

AggInit ==
    /\ df \in Loaded
    /\ start \in RangeDates
    /\ end \in RangeDates
    /\ fdf = << >>
    /\ kpi = [ing |-> 0, gas |-> 0, inv |-> 0, balance |-> 0]
    /\ g = << >>
    /\ apc = "data"

\* fdf: the rows of the period.
FilterStep ==
    /\ apc = "data"
    /\ fdf' = FilterByRange(df, start, end)
    /\ apc' = "kpis"
    /\ UNCHANGED ledgerVars
    /\ UNCHANGED <<df, start, end, kpi, g>>

\* ing, gas, inv, balance.
KpiStep ==
    /\ apc = "kpis"
    /\ kpi' = Kpis(fdf)
    /\ apc' = "chart"
    /\ UNCHANGED ledgerVars
    /\ UNCHANGED <<df, start, end, fdf, g>>

\* if fdf.empty: st.info(...)
ChartNoData ==
    /\ apc = "chart"
    /\ fdf = << >>
    /\ apc' = "nodata"
    /\ UNCHANGED ledgerVars
    /\ UNCHANGED <<df, start, end, fdf, kpi, g>>

\* else: the grouped cumulative series.
ChartSeries ==
    /\ apc = "chart"
    /\ fdf # << >>
    /\ g' = BalanceSeries(fdf)
    /\ apc' = "charted"
    /\ UNCHANGED ledgerVars
    /\ UNCHANGED <<df, start, end, fdf, kpi>>

AggNext ==
    \/ FilterStep
    \/ KpiStep
    \/ ChartNoData
    \/ ChartSeries

\* ---------------------------------------------------------- specifications
Init == LedgerInit /\ AggIdle
Next == LedgerNext(Sessions)
Spec == Init /\ [][Next]_vars

\* One browser session alone: the passes follow one another.
NextSeq == LedgerNext({"s1"})
SpecSeq == Init /\ [][NextSeq]_vars

\* The main content's computation over every loaded sequence and period.
InitAgg == LedgerInit /\ transactions = {} /\ AggInit
SpecAgg == InitAgg /\ [][AggNext]_vars

\* ------------------------------------------------------------------ claims
AllIdleBut(s) == \A s2 \in Sessions \ {s} : pc[s2] = "idle"

Refs(uid, name) == {t \in transactions : t.user_id = uid /\ t.category = name}

\* Sum of the values of a function with a finite domain.
RECURSIVE SumFn(_)
SumFn(f) ==
    IF DOMAIN f = {} THEN 0
    ELSE LET x == CHOOSE x \in DOMAIN f : TRUE
         IN  f[x] + SumFn([y \in DOMAIN f \ {x} |-> f[y]])

\* C1: a category delete with no reassignment target never removes a
\* category while a stored movement of that owner references it: the step of
\* delete_category that deletes the category rows, taken with reassign_to
\* absent and such a movement stored, leaves the categories as they are.
C1_DeleteBlockedWhenInUse ==
    [][\A s \in Sessions :
        (/\ pc[s] = "del_delete"
         /\ pc'[s] = "del_clear"
         /\ del_to[s] = None
         /\ Refs(user[s], del_name[s]) # {})
        => categories' = categories]_vars

\* C2: every stored movement has an amount above 0, and "Agregar" with an
\* amount of 0 or less inserts nothing and shows the amount warning (the
\* category warning when there is no category of the chosen kind).
C2_InvalidAmountRejected ==
    /\ [](\A t \in transactions : t.amount > 0)
    /\ [][\A s \in Sessions :
            (pc[s] = "add" /\ pc'[s] # "add" /\ form[s].amount <= 0)
            => /\ transactions' = transactions
               /\ msg'[s] = IF CatsOpts(cats_df[s], form[s].kind) = {}
                            THEN "NoCategory" ELSE "InvalidAmount"]_vars

C2_Witness ==
    \E s \in Sessions :
        /\ msg[s] = "InvalidAmount"
        /\ form[s].amount <= 0
        /\ CatsOpts(cats_df[s], form[s].kind) # {}

\* C3: the first load_categories(owner) or load_transactions(owner) after a
\* write has completed returns what the store holds for that owner at that
\* moment.
C3_ReadYourWrites ==
    [][\A s \in Sessions :
        /\ (/\ pc[s] \in {"ensure", "sidebar", "admin_cats"}
            /\ pc'[s] # pc[s]
            /\ user'[s] = user[s]
            /\ <<"load_categories", user[s]>> \in unread)
           => cats_df'[s] = FetchCategories(user[s])
        /\ (/\ pc[s] \in {"count", "data"}
            /\ pc'[s] # pc[s]
            /\ <<"load_transactions", user[s]>> \in unread)
           => tx_df'[s] = FetchTransactions(user[s])]_vars

\* A pass that seeded has loaded the categories again and got the seeds,
\* while other keys are still unread since that write.
C3_Witness ==
    \E s \in Sessions :
        /\ pc[s] \in {"add", "addcat", "admin_cats"}
        /\ idx[s] > 0
        /\ unread # {}
        /\ <<"load_categories", user[s]>> \notin unread
        /\ DOMAIN cats_df[s] # {}
        /\ cats_df[s] = FetchCategories(user[s])

\* C4: when two sessions of one owner have both run the seed loop of
\* ensure_default_categories, the store holds each seed name at most once
\* for that owner.
C4_NoDuplicateSeeds ==
    \A s1 \in Sessions, s2 \in Sessions :
        (/\ s1 # s2
         /\ user[s1] # None
         /\ user[s1] = user[s2]
         /\ idx[s1] = Len(defaults) + 1
         /\ idx[s2] = Len(defaults) + 1)
        => \A r \in DOMAIN FetchCategories(user[s1]) : categories[r] <= 1

\* C5: with the passes following one another, ensure_default_categories
\* seeds exactly when the owner has no category, the seed loop leaves the
\* owner with the seed set, each name once, and a call for an owner who has
\* a category goes on without inserting.
C5_EnsureIdempotent ==
    /\ [](\A s \in Sessions :
            pc[s] = "seed_clear" => FetchCategories(user[s]) = DefaultsBag(user[s]))
    /\ [][\A s \in Sessions :
            (pc[s] = "ensure" /\ pc'[s] # "ensure")
            => IF NumCats(user[s]) = 0
               THEN pc'[s] = "seed"
               ELSE pc'[s] = "sidebar" /\ categories' = categories]_vars

\* The second pass of a session over a store that began empty: the call
\* inserted nothing and the owner holds the seed set.
C5_Witness ==
    \E s \in Sessions :
        /\ runs = 2
        /\ pc[s] = "sidebar"
        /\ idx[s] = 0
        /\ transactions = {}
        /\ FetchCategories(user[s]) = DefaultsBag(user[s])

\* C6: every row a session holds from load_categories or load_transactions,
\* and every row the cache holds under an owner's key, is a row of that
\* owner.
C6_NoCrossOwnerRows ==
    /\ \A s \in Sessions :
          /\ \A r \in DOMAIN cats_df[s] : r.user_id = user[s]
          /\ \A t \in tx_df[s] : t.user_id = user[s]
    /\ \A o \in Owners :
          /\ cache[<<"load_categories", o>>].held
                => \A r \in DOMAIN cache[<<"load_categories", o>>].data : r.user_id = o
          /\ cache[<<"load_transactions", o>>].held
                => \A t \in cache[<<"load_transactions", o>>].data : t.user_id = o

\* Two sessions of different owners hold their own movements, one owner's
\* being in the cache.
C6_Witness ==
    \E s1 \in Sessions, s2 \in Sessions :
        /\ user[s1] # None /\ user[s2] # None /\ user[s1] # user[s2]
        /\ tx_df[s1] # {} /\ tx_df[s2] # {}
        /\ cache[<<"load_transactions", user[s1]>>].held
        /\ cache[<<"load_transactions", user[s1]>>].data # {}

\* C7: delete_category with a target: the reassigning step gives the target
\* to exactly the owner's movements of the deleted name and changes nothing
\* else; the deleting step removes exactly the owner's category rows of that
\* name and changes nothing else.
C7_ReassignFrame ==
    [][\A s \in Sessions :
        /\ (pc[s] = "del_update" /\ pc'[s] = "del_delete")
           => /\ categories' = categories
              /\ Cardinality(transactions') = Cardinality(transactions)
              /\ \A t \in transactions :
                    IF t.user_id = user[s] /\ t.category = del_name[s]
                    THEN [t EXCEPT !.category = del_to[s]] \in transactions'
                    ELSE t \in transactions'
              /\ \A t \in transactions' :
                    ~(t.user_id = user[s] /\ t.category = del_name[s])
        /\ (pc[s] = "del_delete" /\ pc'[s] = "del_clear" /\ del_to[s] # None)
           => /\ transactions' = transactions
              /\ DOMAIN categories' \subseteq DOMAIN categories
              /\ \A r \in DOMAIN categories :
                    IF r.user_id = user[s] /\ r.name = del_name[s]
                    THEN r \notin DOMAIN categories'
                    ELSE r \in DOMAIN categories' /\ categories'[r] = categories[r]]_vars

\* The delete has run with a target, and a movement the session had counted
\* under the deleted name is stored under the target.
C7_Witness ==
    \E s \in Sessions :
        /\ pc[s] = "del_clear"
        /\ del_to[s] # None
        /\ \E t \in tx_df[s] :
              /\ t.category = del_name[s]
              /\ [t EXCEPT !.category = del_to[s]] \in transactions
        /\ \E r \in DOMAIN categories : r.user_id # user[s] \/ r.name # del_name[s]

\* C8 helpers: the rows of df inside the period, by position.
InRange == {i \in 1..Len(df) : start <= df[i].tdate /\ df[i].tdate <= end}

KindTotal(kind) ==
    SumFn([i \in {j \in InRange : df[j].kind = kind} |-> df[i].amount])

\* C8: the KPIs are the per-kind sums of the amounts of the rows with
\* start <= tdate <= end, balance is income - expense - investment, no such
\* row gives four zeros, and the scenario gives 1000, 300, 200 and 500.
C8_Kpis ==
    apc \in {"chart", "nodata", "charted"} =>
        /\ kpi.ing = KindTotal("ingreso")
        /\ kpi.gas = KindTotal("gasto")
        /\ kpi.inv = KindTotal("inversion")
        /\ kpi.balance = kpi.ing - kpi.gas - kpi.inv
        /\ (InRange = {} => kpi = [ing |-> 0, gas |-> 0, inv |-> 0, balance |-> 0])
        /\ (df = Scenario /\ start = 1 /\ end = 31
               => kpi = [ing |-> 1000, gas |-> 300, inv |-> 200, balance |-> 500])

C8_Witness ==
    /\ apc = "chart"
    /\ df = Scenario /\ start = 1 /\ end = 31
    /\ kpi = [ing |-> 1000, gas |-> 300, inv |-> 200, balance |-> 500]

\* C9 helpers.
Signed(r) == IF r.kind = "ingreso" THEN r.amount ELSE 0 - r.amount

NetOn(d) ==
    SumFn([i \in {j \in 1..Len(fdf) : fdf[j].tdate = d} |-> Signed(fdf[i])])

\* C9: the series has one row per date of the charted rows, dates strictly
\* increasing; a row's net is the sum of the signed amounts of its date; the
\* cumulative column is the prefix sum of the net column; and the last
\* cumulative value is the sum of the signed amounts of all charted rows.
C9_BalanceSeries ==
    apc = "charted" =>
        /\ {g[i].tdate : i \in 1..Len(g)} = {fdf[i].tdate : i \in 1..Len(fdf)}
        /\ \A i \in 1..Len(g) - 1 : g[i].tdate < g[i + 1].tdate
        /\ \A i \in 1..Len(g) : g[i].delta = NetOn(g[i].tdate)
        /\ \A i \in 1..Len(g) : g[i].saldo = SumFn([j \in 1..i |-> g[j].delta])
        /\ g[Len(g)].saldo = SumFn([i \in 1..Len(fdf) |-> Signed(fdf[i])])

\* A series of two buckets, one of them holding two rows of different kinds.
C9_Witness ==
    /\ apc = "charted"
    /\ Len(g) = 2
    /\ Len(fdf) = 3
    /\ \E i \in 1..2 : fdf[i].tdate = fdf[i + 1].tdate /\ fdf[i].kind # fdf[i + 1].kind
    /\ g[2].saldo # g[2].delta

\* C10: once delete_category with a target has reassigned and deleted, and
\* the other session's pass has ended, no stored movement of the owner has
\* the deleted name as its category.
C10_NoOrphanAfterReassign ==
    \A s \in Sessions :
        (pc[s] = "del_clear" /\ del_to[s] # None /\ AllIdleBut(s))
        => Refs(user[s], del_name[s]) = {}

=============================================================================
